---- MODULE Spec2Model ----
(***************************************************************************)
(* concealSATgen: generator of random k-SAT formulas with a hidden         *)
(* (planted) solution.  The model follows generator.main, the clause       *)
(* sampler sample_clauses.sample_clauses, the fingerprint table of         *)
(* hash_clauses and the formula builder cnfformula.CNF.                    *)
(*                                                                         *)
(* Conventions.  A literal is the pair <<polarity, variable>>, a clause a  *)
(* sequence of literals.  An optional argument is <<>> (Python None) or    *)
(* <<x>>.  Probabilities are integers in units of 1/PScale, and a value    *)
(* returned by random.random() is the integer u standing for the interval  *)
(* [u/PScale, (u+1)/PScale).  The global pseudo-random stream of module    *)
(* random is the record rs: the seed it was last seeded with and the       *)
(* number of requests served since.  gen describes the generator behind    *)
(* the stream: None when nothing is assumed about it (then every outcome   *)
(* of a request is possible and rs only tells a fresh stream from a used   *)
(* one), or the parameters of one concrete generator.                      *)
(***************************************************************************)
EXTENDS Integers, Sequences, FiniteSets, TLC

\* ---------------------------------------------------------------- bounds
MaxN == 2
MaxM == 2
MaxK == 2
PScale == 2
MaxSeed == 0
MaxFileLen == 2
MaxAttempts == 2
MaxPos == 6
HashRange == 4
MaxRuns == 3

\* ------------------------------------------------------ program constants
DefaultK == 3
DefaultSeed == 42
NoSeed == -1

None == <<>>
Some(x) == <<x>>

NoCall == [op |-> "none", arg |-> None, value |-> None]

VARIABLES
  pc,                      \* position of the running main call
  err,                     \* <<exception type, source line of the raise>>
  effects,                 \* side effects performed by the running call
  terminalstring,          \* the arguments as passed (header line 2)
  pvaluestring,            \* the p-values written to the header
  n, m, k, p, s, hf,       \* arguments after defaulting; hf is argument F
  hiddensol_string,        \* positive entries of the hidden solution
  hidden,                  \* dict variable -> polarity
  t,                       \* attempt counter of main
  F,                       \* the CNF object
  variables, clauselist,   \* result of the last sample_clauses call
  clauses, variableset, clause_hash_set, highestvariablecreated,
  variable_mapping,        \* hash_clauses.variable_mapping
  rs,                      \* global stream of module random
  written,                 \* the text written to the output file
  copy,                    \* a copy of an output file kept by the caller
  gen,                     \* parameters of the pseudo-random generator
  runs,                    \* number of main calls made so far
  api                      \* last call made directly on hash_clauses

vars == <<pc, err, effects, terminalstring, pvaluestring, n, m, k, p, s, hf,
          hiddensol_string, hidden, t, F, variables, clauselist,
          clauses, variableset, clause_hash_set, highestvariablecreated,
          variable_mapping, rs, written, copy, gen, runs, api>>

locals == <<hiddensol_string, hidden, t, F, variables, clauselist>>
samplerLocals == <<clauses, variableset, clause_hash_set, highestvariablecreated>>
callState == <<terminalstring, pvaluestring, n, m, k, p, s, hf>>
harness == <<copy, gen, runs, api>>

\* ------------------------------------------------------------- helpers
Abs(x) == IF x < 0 THEN -x ELSE x

Range(q) == {q[j] : j \in 1..Len(q)}

SeqsUpTo(S, len) == UNION {[1..j -> S] : j \in 0..len}

EmptyMap == [x \in {} |-> 0]

RECURSIVE SumOver(_, _)
SumOver(f, q) == IF q = <<>> THEN 0 ELSE f[Head(q)] + SumOver(f, Tail(q))

\* ------------------------------------------------------ module random
seeded(x) == [seed |-> x, pos |-> 0]

advance(r, cnt) ==
  [r EXCEPT !.pos = IF gen = None THEN 1 ELSE r.pos + cnt]

\* The i-th element (from 0) of a finite set in a fixed enumeration
RECURSIVE Nth(_, _)
Nth(S, i) ==
  LET x == CHOOSE y \in S : TRUE
  IN  IF i = 0 THEN x ELSE Nth(S \ {x}, i - 1)

\* The outcome of a request to stream r that chooses from S, for the
\* generator gen = <<<<a, b, c>>>>: element number a*seed + b*pos + c
generated(S, r) ==
  Nth(S, (gen[1][1] * r.seed + gen[1][2] * r.pos + gen[1][3]) % Cardinality(S))

\* x is a possible outcome of a request to stream r that chooses from S
outcome(x, S, r) == IF gen = None THEN TRUE ELSE x = generated(S, r)

\* random.random(): the values the model distinguishes
Uniform == 0..(PScale - 1)

\* variables drawn with replacement (random.choices instead of random.sample)
CandidatesWithReplacement(nn, kk) == [1..kk -> BOOLEAN \X (1..nn)]

\* random.sample(range(1,n+1),k) with one random.choice([True,False]) each
Candidates(nn, kk) ==
  {c \in [1..kk -> BOOLEAN \X (1..nn)] :
      \A i, j \in 1..kk : i # j => c[i][2] # c[j][2]}

\* values drawn with replacement (random.choices instead of random.sample)
TableSamplesWithReplacement(nn) == [1..(2 * nn) -> 0..(HashRange - 1)]

\* random.sample(range(HashRange), 2*n): distinct values, in drawing order
TableSamples(nn) ==
  {q \in [1..(2 * nn) -> 0..(HashRange - 1)] :
      \A i, j \in 1..(2 * nn) : i # j => q[i] # q[j]}

\* ------------------------------------------------------ sample_clauses.py
\* a coin that compares with <= instead of <
unfair_coin_flip_inclusive(prob, u) == u <= prob

unfair_coin_flip(prob, u) == u < prob

number_of_satisfied_literals(clause, assignment) ==
  Cardinality({j \in 1..Len(clause) :
                  /\ clause[j][2] \in DOMAIN assignment
                  /\ clause[j][1] = assignment[clause[j][2]]})

\* ------------------------------------------------------ hash_clauses.py
init_variable_mapping(mapping, nn, sample) ==
  LET new == {<<b, l>> : b \in BOOLEAN, l \in 1..nn}
  IN  [lit \in (DOMAIN mapping) \cup new |->
         IF lit \in new
           THEN (IF lit[1] THEN sample[2 * lit[2] - 1] ELSE sample[2 * lit[2]])
           ELSE mapping[lit]]

\* a fingerprint that looks at the first literal only
hash_clause_first_literal(mapping, clause) == mapping[clause[1]]

hash_clause(mapping, clause) == SumOver(mapping, clause)

\* ------------------------------------------------------ cnfformula.py
CNF(nn) == [clauses |-> <<>>, n |-> nn, header |-> <<"Default header">>]

add_clause_error(cnf, clause) ==
  IF \E j \in 1..Len(clause) : clause[j][2] > cnf.n \/ clause[j][2] = 0
    THEN <<"ValueError", 36>>
  ELSE IF Cardinality({clause[j][2] : j \in 1..Len(clause)}) # Len(clause)
    THEN <<"ValueError", 38>>
  ELSE None

clause_list(clause) ==
  [j \in 1..Len(clause) |-> IF clause[j][1] THEN clause[j][2] ELSE -clause[j][2]]

\* an add_clause that appends before it looks at the clause
add_clause_unvalidated(cnf, clause) ==
  [cnf EXCEPT !.clauses = Append(@, clause_list(clause))]

add_clause(cnf, clause) ==
  IF add_clause_error(cnf, clause) # None
    THEN cnf
    ELSE [cnf EXCEPT !.clauses = Append(@, clause_list(clause))]

dimacs(cnf) ==
  [comments |-> [j \in 1..Len(cnf.header) |-> <<"c", cnf.header[j]>>],
   problem  |-> <<"p", "cnf", cnf.n, Len(cnf.clauses)>>,
   lines    |-> [j \in 1..Len(cnf.clauses) |-> cnf.clauses[j] \o <<0>>]]

\* ------------------------------------------------------ argument domains
Opt(S) == {None} \cup {Some(x) : x \in S}

PEntries == (-1)..(PScale + 1)

HiddenFiles ==
  {[exists |-> FALSE, ints |-> <<>>]} \cup
  {[exists |-> TRUE, ints |-> q] :
      q \in SeqsUpTo(((-MaxN)..MaxN) \ {0}, MaxFileLen)}

NArgs == Opt((-1)..MaxN)
MArgs == Opt((-1)..MaxM)
KArgs == Opt(0..MaxK)
PArgs == Opt(SeqsUpTo(PEntries, MaxK))
SArgs == Opt(0..MaxSeed)
FArgs == Opt(HiddenFiles)

\* ------------------------------------------------------------ generator.py
Init ==
  /\ pc = "idle"
  /\ err = None
  /\ effects = {}
  /\ terminalstring = <<>>
  /\ pvaluestring = <<>>
  /\ n = 0 /\ m = 0 /\ k = 0 /\ p = <<>> /\ s = 0 /\ hf = None
  /\ hiddensol_string = <<>>
  /\ hidden = EmptyMap
  /\ t = 0
  /\ F = CNF(0)
  /\ variables = {} /\ clauselist = <<>>
  /\ clauses = <<>> /\ variableset = {} /\ clause_hash_set = {}
  /\ highestvariablecreated = 0
  /\ variable_mapping = EmptyMap
  /\ rs = seeded(NoSeed)
  /\ written = None
  /\ copy = None
  /\ gen = None
  /\ runs = 0
  /\ api = NoCall

Raise(e) == pc' = "error" /\ err' = e

\* a main that does not seed the global stream
seed_of_main_missing(r, ss) == r

\* main, line 124: random.seed(s)
seed_of_main(r, ss) == seeded(ss)

\* main, lines 19-134: header strings, default values, random.seed(s)
main_entry(na, ma, ka, pa, sa, Fa) ==
  /\ pc \in {"idle", "done", "error"}
  /\ effects' = {}
  /\ written' = None
  /\ terminalstring' = <<na, ma, ka, pa, sa, Fa>>
  /\ hiddensol_string' = <<>> /\ hidden' = EmptyMap /\ t' = 0 /\ F' = CNF(0)
  /\ variables' = {} /\ clauselist' = <<>>
  /\ clauses' = <<>> /\ variableset' = {} /\ clause_hash_set' = {}
  /\ highestvariablecreated' = 0
  /\ hf' = Fa
  /\ IF na = None \/ ma = None
       THEN /\ Raise(<<"ValueError", IF na = None THEN 89 ELSE 95>>)
            /\ n' = 0 /\ m' = 0 /\ k' = 0 /\ p' = <<>> /\ s' = 0
            /\ pvaluestring' = <<>>
            /\ rs' = rs
       ELSE LET kk == IF ka = None THEN DefaultK ELSE ka[1]
                ss == IF sa = None THEN DefaultSeed ELSE sa[1]
            IN  /\ n' = na[1] /\ m' = ma[1] /\ k' = kk /\ s' = ss
                /\ p' = IF pa = None THEN [j \in 1..kk |-> PScale] ELSE pa[1]
                /\ pvaluestring' = IF pa = None THEN [j \in 1..kk |-> "1.00"]
                                                ELSE pa[1]
                /\ rs' = seed_of_main(rs, ss)
                /\ pc' = "validate"
                /\ err' = None
  /\ UNCHANGED variable_mapping

\* parameter checks without the test k > n
usage_error_without_width(nn, mm, kk, pp) ==
  IF nn < 0 \/ mm < 0 THEN <<"ValueError", 143>>
  ELSE IF kk <= 0 THEN <<"ValueError", 146>>
  ELSE IF Len(pp) # kk THEN <<"ValueError", 153>>
  ELSE IF \E j \in 1..Len(pp) : pp[j] > PScale THEN <<"ValueError", 158>>
  ELSE IF \E j \in 1..Len(pp) : pp[j] < 0 THEN <<"ValueError", 161>>
  ELSE IF ~(\E j \in 1..Len(pp) : pp[j] > 0) THEN <<"ValueError", 164>>
  ELSE None

\* main, lines 142-164: the parameter checks
usage_error(nn, mm, kk, pp) ==
  IF nn < 0 \/ mm < 0 THEN <<"ValueError", 143>>
  ELSE IF kk <= 0 THEN <<"ValueError", 146>>
  ELSE IF kk > nn THEN <<"ValueError", 149>>
  ELSE IF Len(pp) # kk THEN <<"ValueError", 153>>
  ELSE IF \E j \in 1..Len(pp) : pp[j] > PScale THEN <<"ValueError", 158>>
  ELSE IF \E j \in 1..Len(pp) : pp[j] < 0 THEN <<"ValueError", 161>>
  ELSE IF ~(\E j \in 1..Len(pp) : pp[j] > 0) THEN <<"ValueError", 164>>
  ELSE None

check_parameters ==
  /\ pc = "validate"
  /\ IF usage_error(n, m, k, p) # None
       THEN Raise(usage_error(n, m, k, p))
       ELSE pc' = "hidden" /\ err' = err
  /\ UNCHANGED <<effects, callState, locals, samplerLocals, variable_mapping,
                 rs, written>>

\* main, lines 172-226: the hidden solution, random or read from file F
hidden_file_error(ints, nn) ==
  IF ints = <<>> THEN <<"ValueError", 206>>
  ELSE LET highest_var_in_hidden_sol ==
             CHOOSE a \in {Abs(x) : x \in Range(ints)} :
                \A x \in Range(ints) : Abs(x) <= a
       IN  IF highest_var_in_hidden_sol # nn THEN <<"Exception", 210>>
           ELSE IF Cardinality(Range(ints)) < Len(ints)
             THEN <<"Exception", 214>>
           ELSE IF Cardinality({Abs(x) : x \in Range(ints)}) # Len(ints)
             THEN <<"Exception", 218>>
           ELSE None

hidden_dict(ints) ==
  [v \in {Abs(x) : x \in Range(ints)} |->
     LET last == CHOOSE j \in 1..Len(ints) :
                    /\ Abs(ints[j]) = v
                    /\ \A i \in 1..Len(ints) : Abs(ints[i]) = v => i <= j
     IN  ints[last] > 0]

positive_entries(ints) == SelectSeq(ints, LAMBDA x : x > 0)

hidden_solution(flips) ==
  /\ pc = "hidden"
  /\ IF hf = None
       THEN LET hiddensol_listint ==
                  [i \in 1..n |-> IF flips[i] = 0 THEN i ELSE -i]
            IN  /\ hidden' = hidden_dict(hiddensol_listint)
                /\ hiddensol_string' = positive_entries(hiddensol_listint)
                /\ rs' = advance(rs, n)
                /\ pc' = "init" /\ err' = err
                /\ effects' = effects
       ELSE /\ rs' = rs
            /\ IF ~hf[1].exists
                 THEN /\ Raise(<<"FileNotFoundError", 192>>)
                      /\ effects' = effects \cup {"open"}
                      /\ UNCHANGED <<hidden, hiddensol_string>>
                 ELSE /\ effects' = effects \cup {"open", "read"}
                      /\ IF hidden_file_error(hf[1].ints, n) # None
                           THEN /\ Raise(hidden_file_error(hf[1].ints, n))
                                /\ UNCHANGED <<hidden, hiddensol_string>>
                           ELSE /\ hidden' = hidden_dict(hf[1].ints)
                                /\ hiddensol_string' = positive_entries(hf[1].ints)
                                /\ pc' = "init" /\ err' = err
  /\ UNCHANGED <<callState, t, F, variables, clauselist, samplerLocals,
                 variable_mapping, written>>

\* main, lines 232-238: CNF(n), t = 0, hash_clauses.init_variable_mapping(n).
\* init_variable_mapping seeds a private generator rng but draws the sample
\* from the global stream (random.sample); random.sample raises ValueError
\* for a sample larger than the population, which main reports at line 257.
fingerprint_table(sample) ==
  /\ pc = "init"
  /\ F' = CNF(n)
  /\ t' = 0
  /\ IF 2 * n > HashRange
       THEN /\ Raise(<<"ValueError", 257>>)
            /\ UNCHANGED <<variable_mapping, rs, effects>>
       ELSE /\ variable_mapping' = init_variable_mapping(variable_mapping, n, sample)
            /\ rs' = advance(rs, 1)
            /\ effects' = effects \cup {"init"}
            /\ pc' = "attempt" /\ err' = err
  /\ UNCHANGED <<callState, hiddensol_string, hidden, variables,
                 clauselist, samplerLocals, written>>

\* a main that passes its own seed to every attempt
attempt_seed_repeated(ss, tt) == ss

\* main, line 243: the seed s+t passed to sample_clauses
attempt_seed(ss, tt) == ss + tt

\* a sampler that goes on with the lists of the attempt before
start_attempt_keeping_lists ==
  /\ pc = "attempt"
  /\ t < MaxAttempts
  /\ t' = t + 1
  /\ rs' = seeded(attempt_seed(s, t'))
  /\ effects' = effects \cup {"sample"}
  /\ pc' = "sample"
  /\ UNCHANGED <<err, callState, hiddensol_string, hidden, F, variables,
                 clauselist, samplerLocals, variable_mapping, written>>

\* main, lines 240-243 and sample_clauses, lines 39-46
start_attempt ==
  /\ pc = "attempt"
  /\ t < MaxAttempts
  /\ t' = t + 1
  /\ rs' = seeded(attempt_seed(s, t'))
  /\ clauses' = <<>>
  /\ highestvariablecreated' = 0
  /\ variableset' = {}
  /\ clause_hash_set' = {}
  /\ effects' = effects \cup {"sample"}
  /\ pc' = "sample"
  /\ UNCHANGED <<err, callState, hiddensol_string, hidden, F, variables,
                 clauselist, variable_mapping, written>>

\* a loop that runs once too often
loop_condition_off_by_one(list, mm) == Len(list) <= mm

\* sample_clauses, line 48: the condition of the while loop
loop_condition(list, mm) == Len(list) < mm

\* a main that commits whatever the sampler returns
all_variables_used_unchecked(vs, nn) == TRUE

\* a main that is content with at most n variables (> instead of !=)
all_variables_used_at_most(vs, nn) == ~(Cardinality(vs) > nn)

\* main, line 245: were all variables used?
all_variables_used(vs, nn) == ~(Cardinality(vs) # nn)

\* a sampler that forgets the test i > 0
accepts_unsatisfied(clause, u, assignment, probs, mapping, seen) ==
  LET i == number_of_satisfied_literals(clause, assignment)
  IN  /\ IF i > 0 THEN unfair_coin_flip(probs[i], u) ELSE TRUE
      /\ hash_clause(mapping, clause) \notin seen

\* a sampler that does not look up the fingerprint
accepts_duplicates(clause, u, assignment, probs, mapping, seen) ==
  LET i == number_of_satisfied_literals(clause, assignment)
  IN  /\ i > 0
      /\ unfair_coin_flip(probs[i], u)

\* a sampler that asks for all literals to be satisfied (i == k for i > 0)
accepts_only_fully_satisfied(clause, u, assignment, probs, mapping, seen) ==
  LET i == number_of_satisfied_literals(clause, assignment)
  IN  /\ i = Len(clause)
      /\ unfair_coin_flip(probs[i], u)
      /\ hash_clause(mapping, clause) \notin seen

\* sample_clauses, lines 54-57: does the candidate enter the clause list?
accepts(clause, u, assignment, probs, mapping, seen) ==
  LET i == number_of_satisfied_literals(clause, assignment)
  IN  /\ i > 0
      /\ unfair_coin_flip(probs[i], u)
      /\ hash_clause(mapping, clause) \notin seen

max_variable(clause) ==
  CHOOSE v \in {clause[j][2] : j \in 1..Len(clause)} :
     \A j \in 1..Len(clause) : clause[j][2] <= v

\* sample_clauses, lines 48-68: one iteration of the while loop
sample_step(clause, u) ==
  /\ pc = "sample"
  /\ loop_condition(clauses, m)
  /\ IF gen = None THEN TRUE ELSE rs.pos + 2 <= MaxPos
  /\ LET i == number_of_satisfied_literals(clause, hidden)
     IN  rs' = advance(rs, IF i > 0 THEN 2 ELSE 1)
  /\ IF accepts(clause, u, hidden, p, variable_mapping, clause_hash_set)
       THEN /\ clause_hash_set' =
                 clause_hash_set \cup {hash_clause(variable_mapping, clause)}
            /\ highestvariablecreated' =
                 IF max_variable(clause) > highestvariablecreated
                   THEN max_variable(clause) ELSE highestvariablecreated
            /\ variableset' = variableset \cup {clause[j][2] : j \in 1..Len(clause)}
            /\ clauses' = Append(clauses, clause)
       ELSE UNCHANGED samplerLocals
  /\ UNCHANGED <<pc, err, effects, callState, locals, variable_mapping, written>>

\* a for loop that is left after its first iteration
add_all_first_only(cnf, list) ==
  IF list = <<>> THEN [cnf |-> cnf, error |-> None]
  ELSE IF add_clause_error(cnf, Head(list)) # None
    THEN [cnf |-> cnf, error |-> add_clause_error(cnf, Head(list))]
  ELSE [cnf |-> add_clause(cnf, Head(list)), error |-> None]

\* main, lines 248-253: F = CNF(n) and add_clause for every clause in turn;
\* the result is the formula, or the error of the first rejected clause
RECURSIVE add_all(_, _)
add_all(cnf, list) ==
  IF list = <<>> THEN [cnf |-> cnf, error |-> None]
  ELSE IF add_clause_error(cnf, Head(list)) # None
    THEN [cnf |-> cnf, error |-> add_clause_error(cnf, Head(list))]
  ELSE add_all(add_clause(cnf, Head(list)), Tail(list))

\* sample_clauses, lines 48 and 70, and main, lines 243-257: the sampler
\* returns, main checks the variables and builds the formula
attempt_result ==
  /\ pc = "sample"
  /\ ~loop_condition(clauses, m)
  /\ variables' = variableset
  /\ clauselist' = clauses
  /\ IF ~all_variables_used(variableset, n)
       THEN pc' = "attempt" /\ UNCHANGED <<err, F>>
       ELSE LET built == add_all(CNF(n), clauses)
            IN  /\ F' = built.cnf
                /\ IF built.error # None
                     THEN Raise(<<"ValueError", 257>>)
                     ELSE pc' = "write" /\ err' = err
  /\ UNCHANGED <<effects, callState, hiddensol_string, hidden, t,
                 samplerLocals, variable_mapping, rs, written>>

file_name == <<"gen", n, m, k, s>>

header_text ==
  <<"This file was generated by concealSATgen", terminalstring,
    <<"Hidden solution:", hiddensol_string>>, <<"p-values", pvaluestring>>>>

\* main, lines 262-276: output directory, header, DIMACS file
write_file ==
  /\ pc = "write"
  /\ F' = [F EXCEPT !.header = header_text]
  /\ written' = Some([name |-> file_name, text |-> dimacs(F')])
  /\ effects' = effects \cup {"makedirs", "write"}
  /\ pc' = "done"
  /\ UNCHANGED <<err, callState, hiddensol_string, hidden, t, variables,
                 clauselist, samplerLocals, variable_mapping, rs>>

\* ---------------------------------------------------------- specification
\* One run of generator.py (lines 280-292): the process makes one call of
\* main, and every outcome of a request to the pseudo-random stream is
\* possible.
Call ==
  /\ pc = "idle"
  /\ \E na \in NArgs, ma \in MArgs, ka \in KArgs, pa \in PArgs, sa \in SArgs,
        Fa \in FArgs : main_entry(na, ma, ka, pa, sa, Fa)
  /\ UNCHANGED harness

Validate == check_parameters /\ UNCHANGED harness

Hidden ==
  /\ pc = "hidden"
  /\ \E flips \in [1..n -> 0..1] :
        /\ \A i \in 1..n : outcome(flips[i], 0..1, advance(rs, i - 1))
        /\ hidden_solution(flips)
  /\ UNCHANGED harness

InitTable ==
  /\ pc = "init"
  /\ \E sample \in (IF 2 * n > HashRange THEN {<<>>} ELSE TableSamples(n)) :
        /\ IF 2 * n > HashRange THEN TRUE ELSE outcome(sample, TableSamples(n), rs)
        /\ fingerprint_table(sample)
  /\ UNCHANGED harness

StartAttempt == start_attempt /\ UNCHANGED harness

SampleStep ==
  /\ pc = "sample"
  /\ \E clause \in Candidates(n, k), u \in Uniform :
        /\ outcome(clause, Candidates(n, k), rs)
        /\ outcome(u, Uniform, advance(rs, 1))
        /\ sample_step(clause, u)
  /\ UNCHANGED harness

AttemptResult == attempt_result /\ UNCHANGED harness

WriteFile == write_file /\ UNCHANGED harness

Next ==
  \/ Call
  \/ Validate
  \/ Hidden
  \/ InitTable
  \/ StartAttempt
  \/ SampleStep
  \/ AttemptResult
  \/ WriteFile

Spec == Init /\ [][Next]_vars

\* ------------------------------------------------------------ properties
\* a signed literal of the output agrees with the assignment
satisfied_signed(lit, assignment) ==
  Abs(lit) \in DOMAIN assignment /\ (lit > 0) = assignment[Abs(lit)]

signed_satisfied_count(line, assignment) ==
  Cardinality({j \in 1..Len(line) : satisfied_signed(line[j], assignment)})

\* the clause lines of the written file, without the closing 0
written_clauses ==
  [j \in 1..Len(written[1].text.lines) |->
     SubSeq(written[1].text.lines[j], 1, Len(written[1].text.lines[j]) - 1)]

committed == pc \in {"write", "done"}

sampler_has_returned ==
  \/ pc \in {"write", "done"}
  \/ pc \in {"attempt", "sample"} /\ t >= 1 /\ (pc = "sample" => t >= 2)
  \/ pc = "error" /\ err = <<"ValueError", 257>> /\ t >= 1

\* C1 (plantedness): every clause of the sampler's accepted list has at
\* least one literal satisfied by the hidden assignment, at every point of
\* the loop, and so has every clause of the committed formula and of the
\* written file, read as signed integers.
C1_Plantedness ==
  /\ \A j \in 1..Len(clauses) :
        number_of_satisfied_literals(clauses[j], hidden) >= 1
  /\ committed =>
        \A j \in 1..Len(F.clauses) :
           \E l \in 1..Len(F.clauses[j]) : satisfied_signed(F.clauses[j][l], hidden)
  /\ written # None =>
        \A j \in 1..Len(written_clauses) :
           signed_satisfied_count(written_clauses[j], hidden) >= 1

\* a written formula with a clause that also contains a falsified literal
C1_Witness ==
  /\ pc = "done" /\ Len(F.clauses) = 2
  /\ \E j \in 1..2 : signed_satisfied_count(F.clauses[j], hidden) < Len(F.clauses[j])

\* C2 (uniqueness): no two clauses at different positions of the accepted
\* list, of the list returned by sample_clauses, or of the committed formula
\* have the same set of literals.
C2_Uniqueness ==
  /\ \A i, j \in 1..Len(clauses) : i # j => Range(clauses[i]) # Range(clauses[j])
  /\ \A i, j \in 1..Len(clauselist) :
        i # j => Range(clauselist[i]) # Range(clauselist[j])
  /\ \A i, j \in 1..Len(F.clauses) :
        i # j => Range(F.clauses[i]) # Range(F.clauses[j])

\* two clauses of width 2 over the same two variables were accepted
C2_Witness ==
  /\ pc = "done" /\ k = 2 /\ Len(clauselist) = 2
  /\ {clauselist[1][j][2] : j \in 1..2} = {clauselist[2][j][2] : j \in 1..2}

\* C3 (coverage): a committed formula contains every variable 1..n, and it
\* is the output of an attempt whose set of touched variables has n elements.
C3_Coverage ==
  committed =>
    /\ Cardinality(variables) = n
    /\ \A v \in 1..n :
          \E j \in 1..Len(F.clauses) : \E l \in 1..Len(F.clauses[j]) :
             Abs(F.clauses[j][l]) = v
    /\ written # None =>
          \A v \in 1..n :
             \E j \in 1..Len(written_clauses) : \E l \in 1..Len(written_clauses[j]) :
                Abs(written_clauses[j][l]) = v

\* a formula of unit clauses over two variables was committed
C3_Witness == pc = "done" /\ n = 2 /\ k = 1 /\ Len(F.clauses) = 2

well_shaped(vs, nn, kk) ==
  /\ Len(vs) = kk
  /\ \A j \in 1..Len(vs) : vs[j] \in 1..nn
  /\ \A i, j \in 1..Len(vs) : i # j => vs[i] # vs[j]

\* C4 (shape): every clause the sampler has accepted or returned, and every
\* clause of the committed formula, has exactly k literals over pairwise
\* distinct variables of 1..n.
C4_Shape ==
  /\ \A j \in 1..Len(clauses) :
        well_shaped([l \in 1..Len(clauses[j]) |-> clauses[j][l][2]], n, k)
  /\ \A j \in 1..Len(clauselist) :
        well_shaped([l \in 1..Len(clauselist[j]) |-> clauselist[j][l][2]], n, k)
  /\ \A j \in 1..Len(F.clauses) :
        well_shaped([l \in 1..Len(F.clauses[j]) |-> Abs(F.clauses[j][l])], n, k)

\* a formula with two clauses of width 2 was written
C4_Witness == pc = "done" /\ k = 2 /\ n = 2 /\ Len(F.clauses) = 2 /\ written # None

\* C5 (clause count): the accepted list never has more than m elements, the
\* list sample_clauses returns has exactly m, and the committed formula and
\* the written file hold exactly these m clauses in the order of acceptance.
C5_ClauseCount ==
  /\ pc \in {"sample", "attempt", "write", "done"} => Len(clauses) <= m
  /\ sampler_has_returned => Len(clauselist) = m
  /\ committed =>
        F.clauses = [j \in 1..m |-> clause_list(clauselist[j])]
  /\ written # None =>
        /\ written_clauses = [j \in 1..m |-> clause_list(clauselist[j])]
        /\ written[1].text.problem = <<"p", "cnf", n, m>>

\* the sampler returned the empty list for m = 0
C5_Witness == pc = "attempt" /\ t = 1 /\ m = 0 /\ clauselist = <<>>

\* C7 (class suppression): for every i with p[i-1] = 0 no accepted clause,
\* and no clause of the committed formula, has exactly i satisfied literals.
C7_ClassSuppression ==
  /\ \A j \in 1..Len(clauses) :
        LET i == number_of_satisfied_literals(clauses[j], hidden)
        IN  i \in 1..k /\ p[i] # 0
  /\ committed =>
        \A j \in 1..Len(F.clauses) :
           LET i == signed_satisfied_count(F.clauses[j], hidden)
           IN  i \in 1..k /\ p[i] # 0

\* a formula was written although the class of one satisfied literal is
\* suppressed
C7_Witness == pc = "done" /\ k = 2 /\ p[1] = 0 /\ Len(F.clauses) >= 1

\* the conditions on the arguments that the caller has to meet
bad_parameters ==
  \/ n < 0 \/ m < 0 \/ k <= 0 \/ k > n
  \/ Len(p) # k
  \/ \E j \in 1..Len(p) : p[j] > PScale
  \/ \E j \in 1..Len(p) : p[j] < 0
  \/ ~(\E j \in 1..Len(p) : p[j] > 0)

\* C9 (parameter validation): once the checks have run, a call with bad
\* parameters has ended with a ValueError; it has not initialised the
\* fingerprint table, called the sampler, opened a hidden-solution file,
\* created a directory or written a file.
C9_ParameterValidation ==
  (pc \notin {"idle", "validate"} /\ bad_parameters) =>
     /\ pc = "error"
     /\ err[1] = "ValueError"
     /\ effects = {}
     /\ variable_mapping = EmptyMap
     /\ written = None
     /\ t = 0 /\ clauses = <<>> /\ hidden = EmptyMap

\* a call whose p-values are all zero was rejected
C9_Witness ==
  /\ pc = "error" /\ err = <<"ValueError", 164>>
  /\ k = 2 /\ p = <<0, 0>> /\ hf # None

\* C10 (no partial output): a failing call has not written a file; a file is
\* written only by a call that ends without error, from a formula that holds
\* all m clauses of an attempt that used all n variables.
C10_NoPartialOutput ==
  /\ pc = "error" => written = None /\ "write" \notin effects
  /\ (written # None \/ "write" \in effects) =>
        /\ pc = "done" /\ err = None
        /\ Cardinality(variables) = n
        /\ Len(clauselist) = m
        /\ Len(F.clauses) = m
        /\ Len(written[1].text.lines) = m
        /\ written[1].text = dimacs(F)

\* a call failed after it had read a hidden-solution file
C10_Witness ==
  /\ pc = "error" /\ err = <<"Exception", 218>> /\ "read" \in effects

\* One call of main with parameters that pass the checks, default p-values,
\* default seed and a random hidden solution.  main runs in one thread and
\* nothing can stop it, so a call that can take a step takes it: weak
\* fairness of every step.
FairArgs ==
  {<<Some(nn), Some(mm), Some(kk), None, None, None>> :
      nn \in 1..MaxN, mm \in 0..MaxM, kk \in 1..MaxK}

FairCall ==
  /\ pc = "idle"
  /\ \E a \in FairArgs : main_entry(a[1], a[2], a[3], a[4], a[5], a[6])
  /\ UNCHANGED harness

FairNext ==
  \/ FairCall
  \/ Validate
  \/ Hidden
  \/ InitTable
  \/ StartAttempt
  \/ SampleStep
  \/ AttemptResult
  \/ WriteFile

FairSpec == Init /\ [][FairNext]_vars /\ WF_vars(FairNext)

\* the clauses (as sets of literals) that the sampler can accept
acceptable_clauses ==
  {Range(c) : c \in {d \in Candidates(n, k) :
      LET i == number_of_satisfied_literals(d, hidden)
      IN  i > 0 /\ p[i] > 0}}

exhausted == pc = "sample" /\ m > Cardinality(acceptable_clauses)

\* C8 (resource exhaustion): a call that asks for more clauses than can be
\* accepted eventually ends with the ValueError of line 257.
C8_ExhaustionRaises ==
  exhausted ~> (pc = "error" /\ err = <<"ValueError", 257>>)

\* A process that calls main repeatedly (as tests/test_generator.py does),
\* with one concrete generator behind the stream, and a caller that may
\* keep a copy of an output file (test_reproducibility, copy2).
GenMax == 2

Generators == {Some(<<a, b, c>>) : a \in 0..GenMax, b \in 1..GenMax, c \in 0..GenMax}

AllPositive(nn) == [exists |-> TRUE, ints |-> [i \in 1..nn |-> i]]

RepArgs ==
  {<<Some(nn), Some(nn), Some(nn), None, Some(ss), Fa>> :
      nn \in 1..MaxN, ss \in 0..1, Fa \in {None}} \cup
  {<<Some(nn), Some(nn), Some(nn), None, Some(0), Some(AllPositive(nn))>> :
      nn \in 1..MaxN}

RepInit ==
  /\ pc = "idle"
  /\ err = None
  /\ effects = {}
  /\ terminalstring = <<>>
  /\ pvaluestring = <<>>
  /\ n = 0 /\ m = 0 /\ k = 0 /\ p = <<>> /\ s = 0 /\ hf = None
  /\ hiddensol_string = <<>>
  /\ hidden = EmptyMap
  /\ t = 0
  /\ F = CNF(0)
  /\ variables = {} /\ clauselist = <<>>
  /\ clauses = <<>> /\ variableset = {} /\ clause_hash_set = {}
  /\ highestvariablecreated = 0
  /\ variable_mapping = EmptyMap
  /\ rs = seeded(NoSeed)
  /\ written = None
  /\ copy = None
  /\ gen \in Generators
  /\ runs = 0
  /\ api = NoCall

RepCall ==
  /\ pc \in {"idle", "done", "error"}
  /\ runs < MaxRuns
  /\ runs' = runs + 1
  /\ \E a \in RepArgs : main_entry(a[1], a[2], a[3], a[4], a[5], a[6])
  /\ UNCHANGED <<copy, gen, api>>

KeepCopy ==
  /\ pc = "done"
  /\ copy' = written
  /\ UNCHANGED <<pc, err, effects, callState, locals, samplerLocals,
                 variable_mapping, rs, written, gen, runs, api>>

RepNext ==
  \/ RepCall
  \/ KeepCopy
  \/ Validate
  \/ Hidden
  \/ InitTable
  \/ StartAttempt
  \/ SampleStep
  \/ AttemptResult
  \/ WriteFile

RepSpec == RepInit /\ [][RepNext]_vars

same_call_as_copy ==
  copy # None /\ copy[1].text.comments[2] = <<"c", terminalstring>>

\* C6 (determinism): a call that ends with the arguments of an earlier call
\* whose output file was kept has written the same file, whatever calls
\* were made before and between the two.
C6_Determinism ==
  (pc = "done" /\ same_call_as_copy) => written = copy

\* the third call repeats, over one variable, the call whose file was kept,
\* and the fingerprint table still holds the entries of a call over two
C6_Witness ==
  /\ pc = "done" /\ same_call_as_copy /\ runs = 3 /\ n = 1
  /\ Cardinality(DOMAIN variable_mapping) = 4

\* ------------------------------------------------- the builder, used alone
\* A caller that owns a formula made by CNF(n) and calls add_clause with
\* clauses of its own choice (cnfformula.py, class CNF):
\* the variable of a literal may be negative, zero or larger than n, and
\* two literals of a clause may have the same variable.
MaxStored == 2

BuilderClauses == SeqsUpTo(BOOLEAN \X ((-MaxN)..MaxN), MaxK)

BuilderInit ==
  /\ pc = "idle"
  /\ err = None
  /\ effects = {}
  /\ terminalstring = <<>>
  /\ pvaluestring = <<>>
  /\ n = 0 /\ m = 0 /\ k = 0 /\ p = <<>> /\ s = 0 /\ hf = None
  /\ hiddensol_string = <<>>
  /\ hidden = EmptyMap
  /\ t = 0
  /\ F \in {CNF(nn) : nn \in 1..MaxN}
  /\ variables = {} /\ clauselist = <<>>
  /\ clauses = <<>> /\ variableset = {} /\ clause_hash_set = {}
  /\ highestvariablecreated = 0
  /\ variable_mapping = EmptyMap
  /\ rs = seeded(NoSeed)
  /\ written = None
  /\ copy = None
  /\ gen = None
  /\ runs = 0
  /\ api = NoCall

\* F.add_clause(clause): the formula after the call, and the error raised
builder_add(clause) ==
  /\ F' = add_clause(F, clause)
  /\ err' = add_clause_error(F, clause)
  /\ UNCHANGED <<pc, effects, callState, hiddensol_string, hidden, t,
                 variables, clauselist, samplerLocals, variable_mapping, rs,
                 written, harness>>

AddClause ==
  /\ Len(F.clauses) < MaxStored
  /\ \E clause \in BuilderClauses : builder_add(clause)

BuilderNext == AddClause

BuilderSpec == BuilderInit /\ [][BuilderNext]_vars

InvalidClauseErrors == {<<"ValueError", 36>>, <<"ValueError", 38>>}

\* C11 (variable range): add_clause raises the invalid-clause error for
\* every clause with a literal whose variable is not in 1..n, be it larger
\* than n, zero or negative.
C11_OutOfRangeRejected ==
  [][\A clause \in BuilderClauses :
        (/\ builder_add(clause)
         /\ \E j \in 1..Len(clause) : clause[j][2] \notin 1..F.n)
        => err' \in InvalidClauseErrors]_vars

\* two entries of a stored clause are literals of the same variable
repeats_variable(line) ==
  \E i, j \in 1..Len(line) : i # j /\ Abs(line[i]) = Abs(line[j])

\* C12 (one literal per variable): add_clause raises the invalid-clause
\* error for every clause in which two literals have the same variable, with
\* equal or with opposite polarities, and no clause stored in the formula is
\* a tautology or repeats a variable.
C12_NoSharedVariable ==
  [][/\ \A clause \in BuilderClauses :
          (/\ builder_add(clause)
           /\ \E i, j \in 1..Len(clause) : i # j /\ clause[i][2] = clause[j][2])
          => err' \in InvalidClauseErrors
     /\ \A j \in 1..Len(F'.clauses) : ~repeats_variable(F'.clauses[j])]_vars

\* C13 (atomicity): an add_clause that fails leaves the formula as it was;
\* one that succeeds makes the clause list one longer by appending the new
\* clause at the end, and leaves the earlier clauses, their order, n and
\* the header as they were.
C13_Atomicity ==
  [][IF err' # None
       THEN F' = F
       ELSE /\ Len(F'.clauses) = Len(F.clauses) + 1
            /\ SubSeq(F'.clauses, 1, Len(F.clauses)) = F.clauses
            /\ \E clause \in BuilderClauses :
                  /\ builder_add(clause)
                  /\ F'.clauses[Len(F'.clauses)] = clause_list(clause)
            /\ F'.n = F.n
            /\ F'.header = F.header]_vars

\* a clause with two literals of one variable was refused by a formula that
\* already holds a clause
C13_Witness == Len(F.clauses) = 1 /\ err = <<"ValueError", 38>>

\* the list of signed integers has exactly one entry, v or -v, for each
\* variable 1..nn
one_entry_per_variable(ints, nn) ==
  /\ Len(ints) = nn
  /\ \A v \in 1..nn : \E j \in 1..Len(ints) : Abs(ints[j]) = v

past_hidden_solution == pc \in {"init", "attempt", "sample", "write", "done"}

\* C15 (hidden-solution file): main goes on past the reading of the file
\* only if the list has exactly one entry for each variable 1..n; otherwise
\* it ends with an error and has not sampled.  The hidden assignment that
\* the sampler uses is defined on all of 1..n.
C15_HiddenValidation ==
  /\ (hf # None /\ pc \notin {"idle", "validate", "hidden"}) =>
        IF hf[1].exists /\ one_entry_per_variable(hf[1].ints, n)
          THEN TRUE
          ELSE pc = "error" /\ "sample" \notin effects
  /\ past_hidden_solution => DOMAIN hidden = 1..n

\* C16 (seeds of the attempts): the attempt counter is 0 before the first
\* attempt and grows by exactly one with every call of the sampler; the
\* call number j of the sampler seeds the stream with s + j, and the stream
\* keeps that seed while the sampler runs, so the seeds of the attempts of
\* one run are s+1, s+2, ... and none is used twice.
C16_SeedSequence ==
  [][/\ (pc = "init" /\ pc' = "attempt") => t' = 0
     /\ (pc = "attempt" /\ pc' = "sample") =>
           /\ t' = t + 1
           /\ rs' = seeded(s + t')
     /\ pc \in {"attempt", "sample"} =>
           /\ s' = s
           /\ t' >= t
           /\ pc = "sample" => t' = t
     /\ pc' = "sample" => (rs'.seed = s' + t' /\ t' >= 1)]_vars

\* the sampler runs for the second time in one call of main
C16_Witness == pc = "sample" /\ t = 2 /\ rs.seed = s + 2

table_literals(nn) == BOOLEAN \X (1..nn)

\* C18 (fingerprint table): from the return of init_variable_mapping to the
\* end of the run the table has a value for each of the 2n literals of the
\* variables 1..n, these values are pairwise different, and no step of an
\* attempt or between attempts changes the table.
C18_TableInvariant ==
  [][/\ pc' \in {"attempt", "sample", "write", "done"} =>
           /\ table_literals(n') \subseteq DOMAIN variable_mapping'
           /\ \A a, b \in table_literals(n') :
                 a # b => variable_mapping'[a] # variable_mapping'[b]
     /\ pc \in {"attempt", "sample", "write"} =>
           variable_mapping' = variable_mapping]_vars

\* the second attempt over two variables has accepted a clause
C18_Witness ==
  /\ pc = "sample" /\ n = 2 /\ t = 2 /\ Len(clauses) = 1
  /\ Cardinality({variable_mapping[a] : a \in table_literals(2)}) = 4

\* C19 (the table does not depend on the seed): the second call of main in
\* a process, made for the n of the first, builds the table that the first
\* call built, whatever the seeds s of the two calls are and however many
\* values each call has drawn before (a random hidden solution draws n, a
\* hidden solution read from a file none).
C19_TableIndependentOfSeed ==
  [][(/\ pc = "init" /\ pc' = "attempt"
      /\ runs = 2
      /\ DOMAIN variable_mapping = table_literals(n))
     => variable_mapping' = variable_mapping]_vars

\* ------------------------------------------- hash_clauses, used alone
\* A caller that calls init_variable_mapping and hash_clause in any order
\* (hash_clauses.py, lines 12-33).  n is the argument of the latest
\* init_variable_mapping that returned, "init" in effects says that there
\* was one, err is the error of the latest call and api its result.
HashClauses == SeqsUpTo(BOOLEAN \X (1..MaxN), MaxK) \ {<<>>}

hash_defined(mapping, clause) ==
  \A j \in 1..Len(clause) : clause[j] \in DOMAIN mapping

\* init_variable_mapping(nn), lines 14-26; random.sample (line 21) raises
\* ValueError for a sample larger than the population
hash_init(nn, sample) ==
  /\ api' = [op |-> "init_variable_mapping", arg |-> Some(nn), value |-> None]
  /\ rs' = advance(rs, 1)
  /\ IF 2 * nn > HashRange
       THEN /\ err' = <<"ValueError", 21>>
            /\ UNCHANGED <<variable_mapping, n, effects>>
       ELSE /\ variable_mapping' = init_variable_mapping(variable_mapping, nn, sample)
            /\ n' = nn
            /\ effects' = effects \cup {"init"}
            /\ err' = None
  /\ UNCHANGED <<pc, terminalstring, pvaluestring, m, k, p, s, hf, locals,
                 samplerLocals, written, copy, gen, runs>>

\* hash_clause(clause), lines 28-33; a literal without an entry in the
\* dict raises KeyError
hash_call(clause) ==
  /\ api' = [op |-> "hash_clause", arg |-> Some(clause),
             value |-> IF hash_defined(variable_mapping, clause)
                         THEN Some(hash_clause(variable_mapping, clause))
                         ELSE None]
  /\ err' = IF hash_defined(variable_mapping, clause)
              THEN None ELSE <<"KeyError", 33>>
  /\ UNCHANGED <<pc, effects, callState, locals, samplerLocals,
                 variable_mapping, rs, written, copy, gen, runs>>

HashInitCall ==
  \E nn \in 1..MaxN :
     \E sample \in (IF 2 * nn > HashRange THEN {<<>>} ELSE TableSamples(nn)) :
        hash_init(nn, sample)

HashCall == \E clause \in HashClauses : hash_call(clause)

HashNext ==
  \/ HashInitCall
  \/ HashCall

HashSpec == Init /\ [][HashNext]_vars

\* C20 (hash_clause fails outside the table): hash_clause raises an error
\* for a clause with a literal whose variable is larger than the n of the
\* latest init_variable_mapping, and for every clause when there was no
\* init_variable_mapping; it returns no value in these cases.
C20_HashFailure ==
  (/\ api.op = "hash_clause"
   /\ \/ "init" \notin effects
      \/ \E j \in 1..Len(api.arg[1]) : api.arg[1][j][2] > n)
  => (err = <<"KeyError", 33>> /\ api.value = None)

\* the sum of the table values of the literals of a clause
fingerprint(clause) ==
  IF Len(clause) = 1 THEN variable_mapping[clause[1]]
  ELSE variable_mapping[clause[1]] + variable_mapping[clause[2]]
       + (IF Len(clause) > 2 THEN SumOver(variable_mapping, SubSeq(clause, 3, Len(clause)))
                             ELSE 0)

passes_coin(clause, u) ==
  LET i == number_of_satisfied_literals(clause, hidden)
  IN  i > 0 /\ u < p[i]

\* C21 (dedup step): in an iteration of the sampler's loop a candidate that
\* passed the coin flip leaves the accepted list, the set of touched
\* variables and the dedup set as they were exactly when its fingerprint is
\* in the dedup set, whatever its literals are; otherwise the fingerprint,
\* the clause and its variables are recorded together.  A candidate with
\* no satisfied literal or with a failed coin flip records nothing.
C21_DedupStep ==
  [][\A clause \in Candidates(n, k), u \in Uniform :
        sample_step(clause, u) =>
          IF passes_coin(clause, u) /\ fingerprint(clause) \notin clause_hash_set
            THEN /\ clause_hash_set' = clause_hash_set \cup {fingerprint(clause)}
                 /\ clauses' = Append(clauses, clause)
                 /\ variableset' =
                      variableset \cup {clause[j][2] : j \in 1..Len(clause)}
            ELSE /\ clause_hash_set' = clause_hash_set
                 /\ clauses' = clauses
                 /\ variableset' = variableset]_vars

\* the loop goes on after one accepted clause, and a candidate with other
\* literals that passes the coin flip has the fingerprint of that clause
C21_Witness ==
  /\ pc = "sample" /\ Len(clauses) = 1 /\ m = 2 /\ rs.pos = 1
  /\ \E clause \in Candidates(n, k), u \in Uniform :
        /\ Range(clause) # Range(clauses[1])
        /\ passes_coin(clause, u)
        /\ fingerprint(clause) \in clause_hash_set

\* C22 (side effects of the sampler): no step of a call of sample_clauses,
\* from its entry to its return, changes the fingerprint table, the hidden
\* assignment or the state of the process-wide stream of module random.
C22_SamplerSideEffects ==
  [][(pc \in {"attempt", "sample"}) =>
        /\ variable_mapping' = variable_mapping
        /\ hidden' = hidden
        /\ rs' = rs]_vars

\* ------------------------------------------------ fair random draws
\* One call of main with a random hidden solution and the default seed,
\* with the default p or with p = (1/PScale, 0, ..., 0).  Every request to
\* the stream can have every outcome, and an outcome that stays possible is
\* drawn at some time: each candidate clause with each coin value has its
\* own fairness condition, and so has each other step of main.
DrawP == {None} \cup {Some([j \in 1..kk |-> IF j = 1 THEN 1 ELSE 0]) : kk \in 1..MaxK}

DrawArgs ==
  {<<Some(nn), Some(mm), Some(kk), pa, None, None>> :
      nn \in 1..MaxN, mm \in 0..MaxM, kk \in 1..MaxK, pa \in DrawP}

DrawCall ==
  /\ pc = "idle"
  /\ \E a \in DrawArgs : main_entry(a[1], a[2], a[3], a[4], a[5], a[6])
  /\ UNCHANGED harness

\* the iteration of the loop that draws this candidate and this coin value
Draw(clause, u) ==
  /\ pc = "sample"
  /\ clause \in Candidates(n, k)
  /\ sample_step(clause, u)
  /\ UNCHANGED harness

AllCandidates == UNION {Candidates(nn, kk) : nn \in 1..MaxN, kk \in 1..MaxK}

DrawNext ==
  \/ DrawCall
  \/ Validate
  \/ Hidden
  \/ InitTable
  \/ StartAttempt
  \/ SampleStep
  \/ AttemptResult
  \/ WriteFile

DrawSpec ==
  /\ Init
  /\ [][DrawNext]_vars
  /\ WF_vars(DrawNext)
  /\ \A clause \in AllCandidates : \A u \in Uniform : WF_vars(Draw(clause, u))

\* the fingerprints of the clauses that the sampler can accept
acceptable_fingerprints ==
  {fingerprint(d) : d \in {c \in Candidates(n, k) :
      LET i == number_of_satisfied_literals(c, hidden)
      IN  i > 0 /\ p[i] > 0}}

\* C23 (termination of the sampler): sample_clauses returns only with m
\* accepted clauses; when the acceptable clauses have fewer than m different
\* fingerprints it never returns, and when they have at least m it
\* eventually returns, provided the draws are fair.
C23_SamplerTermination ==
  /\ [][(pc = "sample" /\ pc' # "sample") => Len(clauses) = m]_vars
  /\ [][(pc = "sample" /\ Cardinality(acceptable_fingerprints) < m)
           => pc' = "sample"]_vars
  /\ (pc = "sample" /\ Cardinality(acceptable_fingerprints) >= m)
        ~> (pc # "sample")

\* the sampler has returned two clauses although the coin can fail and
\* clauses with two satisfied literals are never accepted
C23_Witness ==
  /\ pc = "write" /\ Len(clauselist) = 2 /\ k = 2
  /\ p[1] < PScale /\ p[2] = 0

\* ------------------------------------------------ numbers of variables
\* One call of main with a random hidden solution, the default p and the
\* default seed, for every n up to the first one whose 2n literals are more
\* than the values that random.sample can draw from (hash_clauses.py,
\* line 21).
RetryArgs ==
  {<<Some(nn), Some(mm), Some(kk), None, None, None>> :
      nn \in 1..((HashRange \div 2) + 1), mm \in 0..MaxM, kk \in 1..MaxK}

RetryCall ==
  /\ pc = "idle"
  /\ \E a \in RetryArgs : main_entry(a[1], a[2], a[3], a[4], a[5], a[6])
  /\ UNCHANGED harness

RetryNext ==
  \/ RetryCall
  \/ Validate
  \/ Hidden
  \/ InitTable
  \/ StartAttempt
  \/ SampleStep
  \/ AttemptResult
  \/ WriteFile

RetrySpec == Init /\ [][RetryNext]_vars

\* main has accepted its parameters, and m clauses of width k cannot
\* mention n variables
too_few_slots ==
  /\ pc \notin {"idle", "validate"}
  /\ usage_error(n, m, k, p) = None
  /\ m * k < n

never_done_never_failed ==
  /\ pc \notin {"write", "done", "error"}
  /\ (pc = "attempt" /\ t >= 1) => Cardinality(variables) < n

====
